---- MODULE Spec2Model ----
(***************************************************************************)
(* The real-time voice session manager of Keshra AI: the useWAI hook       *)
(* (src/hooks/useWAI.ts, first revision, lines 60-409) as a state machine. *)
(* The transcript handling of onmessage exists only in the file's second   *)
(* revision (lines 666-700) and is taken from there; the classified        *)
(* microphone messages exist only in src/unnamed/part_005 (lines           *)
(* 1240-1259) and are taken from there.                                    *)
(*                                                                         *)
(* Everything runs on one event loop, so every handler is one atomic       *)
(* action up to its next await.  The suspension points of the code are     *)
(*   - await createNewChat()            (connect, line 241)                *)
(*   - await getUserMedia()             (connect, line 249)                *)
(*   - the pending session promise      (ai.live.connect, line 269)        *)
(*   - await decodeAudioData()          (onmessage, line 298)              *)
(*   - the render that runs the effect of line 82 after setIsSpeaking      *)
(* and any other handler may run at each of them.                          *)
(*                                                                         *)
(* Every connect() call k acquires its own microphone stream, audio        *)
(* contexts and channel; they are named by the number k of the call.       *)
(* Times are integers (ticks of the output context's clock).               *)
(***************************************************************************)
EXTENDS Integers, Sequences, FiniteSets

\* ---- bounds -----------------------------------------------------------
MaxConnects == 2        \* connect() calls in one behaviour
MaxChunks == 3          \* well-formed audio chunks received in one behaviour
MaxTime == 2            \* the largest reading of an output context's clock
MaxDur == 1             \* the longest chunk, in clock ticks
MaxSpans == 2           \* transcript spans accumulated at one time
MaxFlushed == 2         \* spans in the chat entries appended in one behaviour
MaxSessions == 3        \* chat sessions created in one behaviour
MaxAsks == 2            \* sendTextMessage calls in one behaviour
MaxPending == 2         \* then-callbacks of captured frames waiting at one time
SampleDen == 10         \* samples are multiples of 1/SampleDen
MaxSample == 2          \* samples range over [-MaxSample, MaxSample]

Calls == 1..MaxConnects
Chunks == 1..MaxChunks
Durs == 1..MaxDur
None == 0

\* ---- volume metering (line 285): Math.min(rms * 10, 1), in 1/20ths -----
VolOne == 20
VolGain == 10
RmsVals == {1, 3}

VARIABLES
  geminiKey,          \* getGeminiKey() returns a key
  user,               \* a user is logged in
  activeSessionId,    \* id of the active chat session, None when null
  sessions,           \* number of chat sessions created (ids 1..sessions)
  connectionState,
  isSpeaking,         \* React state set by setIsSpeaking
  isSpeakingRef,      \* isSpeakingRef.current, written by the effect of line 82
  volumeLevel,
  sessionPromiseRef,  \* the call whose session promise the ref holds, or None
  mediaStreamRef,
  inputContextRef,
  outputContextRef,
  nextStartTimeRef,
  audioSources,       \* the set of pending playback sources (chunk ids)
  call,               \* where each connect() call stands: idle / chat / mic,
                      \* or how it returned: nokey / login / micfail / done
  stream,             \* microphone stream of call k: none / live / stopped
  inCtx,              \* input AudioContext of call k: none / open / closed
  outCtx,             \* output AudioContext of call k: none / open / closed
  clock,              \* outputCtx.currentTime of call k
  chan,               \* channel of call k: none/pending/open/closing/closed/failed
  closeOnOpen,        \* a then(s => s.close()) waits on the pending promise
  src,                \* the playback source of every chunk
  decodeQ,            \* chunks whose handler is suspended in await decodeAudioData
  prevEnd,            \* history: scheduled end of the chunk started last, -1 if
                      \* none was started since the start or the last interruption
  lastFrame,          \* history: what the capture callback did with the latest
                      \* frame: none / gated / sent
  transcriptionRef,   \* transcriptionRef.current: the spans accumulated for the
                      \* user and for the model, each a sequence of spans
  messages,           \* the chat entries appended by addMessage, in order
  dropped,            \* history: "dropped" when an interrupted event discarded
                      \* accumulated spans and no span has arrived since,
                      \* "flushed" when a turn-complete has followed, else "no"
  targets,            \* the id of the chat session each entry of messages
                      \* was appended to
  currentSessionId,   \* the chat session id connect() call k has captured
                      \* (line 240), None before
  isProcessing,       \* React state set by setIsProcessing
  ask,                \* where each sendTextMessage call stands
  thenQ,              \* the frames whose then-callback (line 286) is registered
                      \* and has not run yet, in the order of registration
  lastSent,           \* history: the energy of the frame a then-callback handed
                      \* to sendRealtimeInput last, 0 if none
  sample,             \* float32ToPCM16: the input sample, in 1/SampleDen
  pcm16,              \* float32ToPCM16: the element of the Int16Array returned
  float32,            \* convertPCM16ToFloat32: the element returned, a fraction
  codec               \* how far the sample went: idle / encoded / decoded

vars == <<geminiKey, user, activeSessionId, sessions, connectionState,
          isSpeaking, isSpeakingRef, volumeLevel, sessionPromiseRef,
          mediaStreamRef, inputContextRef, outputContextRef, nextStartTimeRef,
          audioSources, call, stream, inCtx, outCtx, clock, chan, closeOnOpen,
          src, decodeQ, prevEnd, lastFrame, transcriptionRef, messages,
          dropped, targets, currentSessionId, isProcessing, ask, thenQ,
          lastSent, sample, pcm16, float32, codec>>

authVars == <<geminiKey, user>>
textVars == <<transcriptionRef, messages, dropped, targets>>
askVars == <<isProcessing, ask>>
chatVars == <<activeSessionId, sessions>>
sendVars == <<thenQ, lastSent>>
codecVars == <<sample, pcm16, float32, codec>>
refVars == <<sessionPromiseRef, mediaStreamRef, inputContextRef, outputContextRef>>
devVars == <<stream, inCtx, outCtx>>
playVars == <<nextStartTimeRef, audioSources, src, decodeQ, prevEnd>>
\* what disconnect() never touches
keptVars == <<authVars, sendVars, codecVars, askVars, transcriptionRef, dropped, isSpeakingRef, nextStartTimeRef, clock, decodeQ,
              prevEnd, lastFrame>>

Max(a, b) == IF a >= b THEN a ELSE b
Min(a, b) == IF a <= b THEN a ELSE b

\* stale is history: an interrupted event was handled while the chunk's handler
\* was suspended in its decode
NoSrc == [st |-> "none", ctx |-> 0, dur |-> 0, start |-> 0, stopped |-> FALSE,
          stale |-> FALSE]

\* line 524: { user: '', model: '' }
NoText == [user |-> <<>>, model |-> <<>>]

\* a variant of TargetOf: the session that is active when the entry is added
TargetActive(k) == activeSessionId

\* the targetSessionId the callbacks of connect() call k pass to addMessage:
\* the id the call captured
TargetOf(k) == currentSessionId[k]

\* sendTextMessage calls in one behaviour
Asks == 1..MaxAsks
\* a call not made yet
NoAsk == [st |-> "idle", kind |-> "none", model |-> 0]

\* the hook after its first render
HookInit ==
  /\ geminiKey \in BOOLEAN
  /\ user \in BOOLEAN
  /\ activeSessionId = None
  /\ sessions = 0
  /\ connectionState = "DISCONNECTED"
  /\ isSpeaking = FALSE
  /\ isSpeakingRef = FALSE
  /\ volumeLevel = 0
  /\ sessionPromiseRef = None
  /\ mediaStreamRef = None
  /\ inputContextRef = None
  /\ outputContextRef = None
  /\ nextStartTimeRef = 0
  /\ audioSources = {}
  /\ call = [k \in Calls |-> "idle"]
  /\ stream = [k \in Calls |-> "none"]
  /\ inCtx = [k \in Calls |-> "none"]
  /\ outCtx = [k \in Calls |-> "none"]
  /\ clock = [k \in Calls |-> 0]
  /\ chan = [k \in Calls |-> "none"]
  /\ closeOnOpen = [k \in Calls |-> FALSE]
  /\ src = [i \in Chunks |-> NoSrc]
  /\ decodeQ = <<>>
  /\ prevEnd = -1
  /\ lastFrame = "none"
  /\ transcriptionRef = NoText
  /\ messages = <<>>
  /\ dropped = "no"
  /\ targets = <<>>
  /\ currentSessionId = [k \in Calls |-> None]
  /\ isProcessing = FALSE
  /\ ask = [c \in Asks |-> NoAsk]
  /\ thenQ = <<>>
  /\ lastSent = 0

\* a fraction num / den
Frac(n, d) == [num |-> n, den |-> d]

Init ==
  /\ HookInit
  /\ sample = 0
  /\ pcm16 = 0
  /\ float32 = Frac(0, 1)
  /\ codec = "idle"

\* ---- disconnect(), lines 223-231, as the values it leaves ---------------
\* line 224: then(s => s.close()) on the promise the ref holds.  A resolved
\* promise runs the callback in the same turn of the event loop; a pending one
\* runs it when the channel opens.
DiscChan(ch, ref) ==
  [k \in Calls |-> IF k = ref /\ ch[k] = "open" THEN "closing" ELSE ch[k]]

DiscCloseOnOpen(ch, ref) ==
  [k \in Calls |-> IF k = ref /\ ch[k] = "pending" THEN TRUE ELSE closeOnOpen[k]]

\* a variant of DiscStream: the tracks are left running
DiscStreamKept(s, ref) == s

\* line 225: stop every track of the stream the ref holds
DiscStream(s, ref) ==
  [k \in Calls |-> IF k = ref /\ s[k] = "live" THEN "stopped" ELSE s[k]]

\* lines 226-227: close the context the ref holds
DiscCtx(c, ref) ==
  [k \in Calls |-> IF k = ref /\ c[k] = "open" THEN "closed" ELSE c[k]]

\* a variant of StopAll: the set is cleared without stopping the sources
StopAllForgotten(s, set) == s

\* lines 228 and 292: stop() every source of the pending set
StopAll(s, set) ==
  [i \in Chunks |-> IF i \in set THEN [s[i] EXCEPT !.stopped = TRUE] ELSE s[i]]

\* a variant of Teardown: the resources are released but the refs are kept, as
\* in the inline disconnect of lines 775-781
TeardownKeepRefs(ch, s, ic, oc, mref, iref, oref, finalState) ==
  /\ chan' = DiscChan(ch, sessionPromiseRef)
  /\ closeOnOpen' = DiscCloseOnOpen(ch, sessionPromiseRef)
  /\ stream' = DiscStream(s, mref)
  /\ inCtx' = DiscCtx(ic, iref)
  /\ outCtx' = DiscCtx(oc, oref)
  /\ src' = StopAll(src, audioSources)
  /\ audioSources' = {}
  /\ UNCHANGED refVars
  /\ connectionState' = finalState
  /\ isSpeaking' = FALSE
  /\ volumeLevel' = 0
  /\ UNCHANGED keptVars

\* disconnect() called with the channels, streams, contexts and refs as they
\* are at the call (a caller that has just acquired something passes the new
\* values), leaving connectionState as the caller sets it after the call.
Teardown(ch, s, ic, oc, mref, iref, oref, finalState) ==
  /\ chan' = DiscChan(ch, sessionPromiseRef)
  /\ closeOnOpen' = DiscCloseOnOpen(ch, sessionPromiseRef)
  /\ stream' = DiscStream(s, mref)
  /\ inCtx' = DiscCtx(ic, iref)
  /\ outCtx' = DiscCtx(oc, oref)
  /\ src' = StopAll(src, audioSources)
  /\ audioSources' = {}
  /\ sessionPromiseRef' = None
  /\ mediaStreamRef' = None
  /\ inputContextRef' = None
  /\ outputContextRef' = None
  /\ connectionState' = finalState
  /\ isSpeaking' = FALSE
  /\ volumeLevel' = 0
  /\ UNCHANGED keptVars

\* disconnect() called from the UI
Disconnect ==
  /\ Teardown(chan, stream, inCtx, outCtx, mediaStreamRef, inputContextRef,
              outputContextRef, "DISCONNECTED")
  /\ UNCHANGED <<chatVars, currentSessionId, messages, targets, call>>

\* ---- connect(), lines 233-316 ------------------------------------------
\* createNewChat (lines 130-147): a new session, made the active one
CreateNewChat ==
  /\ sessions' = sessions + 1
  /\ activeSessionId' = sessions + 1

\* lines 242-249 for a logged-in caller: disconnect(), CONNECTING, and the
\* call suspends in getUserMedia
BeginSetup(k) ==
  /\ Teardown(chan, stream, inCtx, outCtx, mediaStreamRef, inputContextRef,
              outputContextRef, "CONNECTING")
  /\ call' = [call EXCEPT ![k] = "mic"]
  /\ currentSessionId' = [currentSessionId EXCEPT ![k] = activeSessionId']
  /\ UNCHANGED <<messages, targets>>

\* a variant of ReturnEarly: the call returns after lines 244-245
ReturnConnecting(k, result) ==
  /\ Teardown(chan, stream, inCtx, outCtx, mediaStreamRef, inputContextRef,
              outputContextRef, "CONNECTING")
  /\ call' = [call EXCEPT ![k] = result]
  /\ UNCHANGED <<messages, targets, currentSessionId>>

\* a connect() that returns before line 244: "nokey" at line 237, "login" with
\* the result LOGIN_REQUIRED at line 242
ReturnEarly(k, result) ==
  /\ call' = [call EXCEPT ![k] = result]
  /\ UNCHANGED <<authVars, sendVars, codecVars, askVars, currentSessionId, textVars, connectionState, isSpeaking,
                 isSpeakingRef, volumeLevel, refVars, devVars, playVars, clock,
                 chan, closeOnOpen, lastFrame>>

\* connect() is called; the calls are numbered in the order they are made
Connect(k) ==
  /\ call[k] = "idle"
  /\ \A j \in Calls : j < k => call[j] # "idle"
  /\ IF ~geminiKey
       THEN \* lines 235-238: alert and return
            ReturnEarly(k, "nokey") /\ UNCHANGED chatVars
       ELSE IF activeSessionId = None /\ user
         THEN \* line 241: suspended in the insert of createNewChat
              /\ call' = [call EXCEPT ![k] = "chat"]
              /\ UNCHANGED <<authVars, sendVars, codecVars, askVars, currentSessionId, textVars, chatVars, connectionState, isSpeaking,
                             isSpeakingRef, volumeLevel, refVars, devVars,
                             playVars, clock, chan, closeOnOpen, lastFrame>>
         ELSE IF ~user
           THEN \* lines 241-242: a local session if none is active, then
                \* LOGIN_REQUIRED
                /\ IF activeSessionId = None THEN CreateNewChat
                                             ELSE UNCHANGED chatVars
                /\ ReturnEarly(k, "login")
           ELSE UNCHANGED chatVars /\ BeginSetup(k)

\* createNewChat resolves for a logged-in caller (lines 139-146, 241)
ChatCreated(k) ==
  /\ call[k] = "chat"
  /\ CreateNewChat
  /\ BeginSetup(k)

\* a variant of MicFail: the catch returns without the teardown
MicFailNoTeardown(k) ==
  /\ call[k] = "mic"
  /\ call' = [call EXCEPT ![k] = "micfail"]
  /\ UNCHANGED <<authVars, sendVars, codecVars, askVars, currentSessionId, textVars, chatVars, connectionState, isSpeaking,
                 isSpeakingRef, volumeLevel, refVars, devVars, playVars, clock,
                 chan, closeOnOpen, lastFrame>>

\* getUserMedia rejects: lines 251-255
MicFail(k) ==
  /\ call[k] = "mic"
  /\ Teardown(chan, stream, inCtx, outCtx, mediaStreamRef, inputContextRef,
              outputContextRef, "DISCONNECTED")
  /\ call' = [call EXCEPT ![k] = "micfail"]
  /\ UNCHANGED <<chatVars, currentSessionId, messages, targets>>

\* ---- the microphone catch of src/unnamed/part_005, lines 1240-1259 --------
\* What getUserMedia rejects with: the name of the exception, and whether
\* String(e).toLowerCase() includes 'permission denied' or 'found'.
MicErrors ==
  {[name |-> "NotAllowedError", denied |-> TRUE, found |-> FALSE],
   [name |-> "NotAllowedError", denied |-> FALSE, found |-> FALSE],
   [name |-> "PermissionDeniedError", denied |-> FALSE, found |-> FALSE],
   [name |-> "NotFoundError", denied |-> FALSE, found |-> TRUE],
   [name |-> "NotReadableError", denied |-> FALSE, found |-> FALSE],
   [name |-> "Error", denied |-> FALSE, found |-> FALSE]}

DeniedMsg == "Browser Permission Denied"
NotFoundMsg == "Hardware Error: No microphone found"
OtherMsg == "Browser Audio Error"

\* a variant of MicErrorMsg: one message for every failure (line 1244)
MicErrorMsgGeneric(e) == "Microphone access failed."

\* lines 1244-1254
MicErrorMsg(e) ==
  IF e.name = "NotAllowedError" \/ e.name = "PermissionDeniedError" \/ e.denied
    THEN DeniedMsg
    ELSE IF e.name = "NotFoundError" \/ e.found THEN NotFoundMsg
                                                ELSE OtherMsg

\* getUserMedia rejects with e: disconnect(), the classified message is
\* appended to the chat, DISCONNECTED, return (lines 1240-1259)
MicFailReported(k, e) ==
  /\ call[k] = "mic"
  /\ Teardown(chan, stream, inCtx, outCtx, mediaStreamRef, inputContextRef,
              outputContextRef, "DISCONNECTED")
  /\ call' = [call EXCEPT ![k] = "micfail"]
  /\ messages' = Append(messages,
                        [role |-> "model", content |-> <<MicErrorMsg(e)>>])
  /\ targets' = Append(targets, TargetOf(k))
  /\ UNCHANGED <<chatVars, currentSessionId>>

\* getUserMedia resolves (line 250) and one of the constructors of lines
\* 261-262 throws: "first" before any context exists, "second" when the input
\* context already exists but is in no ref; line 265 calls disconnect().
CtxFail(k, which) ==
  /\ call[k] = "mic"
  /\ Teardown(chan, [stream EXCEPT ![k] = "live"],
              IF which = "second" THEN [inCtx EXCEPT ![k] = "open"] ELSE inCtx,
              outCtx, k, inputContextRef, outputContextRef, "DISCONNECTED")
  /\ call' = [call EXCEPT ![k] = "done"]
  /\ UNCHANGED <<chatVars, currentSessionId, messages, targets>>

\* getUserMedia resolves, both contexts are created and stored (lines
\* 250-264), and opening the channel throws synchronously: line 315
OpenThrows(k) ==
  /\ call[k] = "mic"
  /\ Teardown(chan, [stream EXCEPT ![k] = "live"],
              [inCtx EXCEPT ![k] = "open"], [outCtx EXCEPT ![k] = "open"],
              k, k, k, "DISCONNECTED")
  /\ call' = [call EXCEPT ![k] = "done"]
  /\ UNCHANGED <<chatVars, currentSessionId, messages, targets>>

\* getUserMedia resolves, the contexts are created and ai.live.connect returns
\* the pending session promise: lines 250, 261-264, 269, 313-314
MicOk(k) ==
  /\ call[k] = "mic"
  /\ stream' = [stream EXCEPT ![k] = "live"]
  /\ inCtx' = [inCtx EXCEPT ![k] = "open"]
  /\ outCtx' = [outCtx EXCEPT ![k] = "open"]
  /\ clock' = [clock EXCEPT ![k] = 0]
  /\ chan' = [chan EXCEPT ![k] = "pending"]
  /\ mediaStreamRef' = k
  /\ inputContextRef' = k
  /\ outputContextRef' = k
  /\ sessionPromiseRef' = k
  /\ call' = [call EXCEPT ![k] = "done"]
  /\ UNCHANGED <<authVars, sendVars, codecVars, askVars, currentSessionId, textVars, chatVars, connectionState, isSpeaking,
                 isSpeakingRef, volumeLevel, playVars, closeOnOpen, lastFrame>>

\* ---- the channel's callbacks, lines 277-310 ----------------------------
\* onopen (lines 277-289), then the promise resolves and a close registered
\* by an earlier disconnect() runs.
ChannelOpen(k) ==
  /\ chan[k] = "pending"
  /\ connectionState' = "CONNECTED"
  /\ chan' = [chan EXCEPT ![k] = IF closeOnOpen[k] THEN "closing" ELSE "open"]
  /\ UNCHANGED <<authVars, sendVars, codecVars, askVars, currentSessionId, textVars, chatVars, isSpeaking, isSpeakingRef, volumeLevel,
                 refVars, devVars, playVars, call, clock, closeOnOpen,
                 lastFrame>>

\* the session promise rejects: line 314 calls disconnect()
ChannelFail(k) ==
  /\ chan[k] = "pending"
  /\ Teardown([chan EXCEPT ![k] = "failed"], stream, inCtx, outCtx,
              mediaStreamRef, inputContextRef, outputContextRef,
              "DISCONNECTED")
  /\ UNCHANGED <<chatVars, currentSessionId, messages, targets, call>>

\* onclose (line 309): after a close() of ours, or a close by the peer
OnClose(k) ==
  /\ chan[k] \in {"open", "closing"}
  /\ chan' = [chan EXCEPT ![k] = "closed"]
  /\ connectionState' = "DISCONNECTED"
  /\ isSpeaking' = FALSE
  /\ UNCHANGED <<authVars, sendVars, codecVars, askVars, currentSessionId, textVars, chatVars, isSpeakingRef, volumeLevel, refVars,
                 devVars, playVars, call, clock, closeOnOpen, lastFrame>>

\* a variant of OnError: the channel is opened again
OnErrorRetry(k) ==
  /\ chan[k] = "open"
  /\ chan' = [chan EXCEPT ![k] = "pending"]
  /\ connectionState' = "CONNECTING"
  /\ UNCHANGED <<authVars, sendVars, codecVars, askVars, currentSessionId, textVars, chatVars, isSpeaking,
                 isSpeakingRef, volumeLevel, refVars, devVars, playVars, call,
                 clock, closeOnOpen, lastFrame>>

\* onerror (line 310): the socket has failed and its close event follows
OnError(k) ==
  /\ chan[k] = "open"
  /\ chan' = [chan EXCEPT ![k] = "closing"]
  /\ connectionState' = "DISCONNECTED"
  /\ UNCHANGED <<authVars, sendVars, codecVars, askVars, currentSessionId, textVars, chatVars, isSpeaking, isSpeakingRef, volumeLevel,
                 refVars, devVars, playVars, call, clock, closeOnOpen,
                 lastFrame>>

\* ---- onmessage, lines 290-308 -------------------------------------------
\* the first chunk id not yet used
FreeChunks == {i \in Chunks : src[i].st = "none"}
NextChunk == CHOOSE i \in FreeChunks : \A j \in FreeChunks : i <= j

\* history only: an interrupted event is handled while these chunks decode
MarkStale(s) ==
  [i \in Chunks |-> IF s[i].st = "decoding" THEN [s[i] EXCEPT !.stale = TRUE]
                                            ELSE s[i]]

\* ---- transcripts, second revision, lines 672-682 ---------------------------
\* the spans a partial-transcript event can carry; Blank is white space
Blank == " "
UserSpans == {"Hel", "lo", Blank}
ModelSpans == {"Hi", Blank}
\* what a message carries for one speaker: nothing or one span
SpanOpt(spans) == {<<>>} \cup {<<t>> : t \in spans}

\* a variant of AppendSpan: the new span is put in front
PrependSpan(text, span) == span \o text

\* lines 675-676: transcriptionRef.current.user += text
AppendSpan(text, span) == text \o span

\* String.prototype.trim: leading and trailing white space removed
Trim(text) ==
  LET solid == {i \in 1..Len(text) : text[i] # Blank}
  IN IF solid = {} THEN <<>>
     ELSE SubSeq(text, CHOOSE i \in solid : \A j \in solid : i <= j,
                       CHOOSE i \in solid : \A j \in solid : i >= j)

\* a variant of Flush: an entry for every field
FlushAll(t) ==
  <<[role |-> "user", content |-> t.user],
    [role |-> "model", content |-> t.model]>>

\* a variant of Discard: an interruption keeps the accumulated spans
DiscardNever(intr, text) == text

\* line 672: an interrupted event resets the accumulator
Discard(intr, text) == IF intr THEN NoText ELSE text

\* lines 679-680: addMessage for each field that is not blank, user first
Flush(t) ==
  (IF Trim(t.user) # <<>> THEN <<[role |-> "user", content |-> t.user]>>
                          ELSE <<>>)
  \o (IF Trim(t.model) # <<>> THEN <<[role |-> "model", content |-> t.model]>>
                              ELSE <<>>)

\* One message, handled up to the await of the decode (lines 666-687; the
\* first revision's lines 290-298 are the same without the transcripts).
\* intr: serverContent.interrupted; ut, mt: the user's and the model's
\* transcript span, <<>> when absent; tc: serverContent.turnComplete; audio is
\* 0 when the message has no inline data, -1 when the data does not decode
\* (decode or decodeAudioData throws and the handler's promise rejects),
\* otherwise the duration of the decoded buffer.
Message(k, intr, ut, mt, tc, audio) ==
  /\ chan[k] = "open"
  /\ audio > 0 => FreeChunks # {}
  /\ LET stopped == IF intr THEN MarkStale(StopAll(src, audioSources)) ELSE src
         kept == Discard(intr, transcriptionRef)
         text == [user |-> AppendSpan(kept.user, ut),
                  model |-> AppendSpan(kept.model, mt)]
     IN /\ audioSources' = IF intr THEN {} ELSE audioSources
        /\ nextStartTimeRef' = IF intr THEN 0 ELSE nextStartTimeRef
        /\ prevEnd' = IF intr THEN -1 ELSE prevEnd
        /\ transcriptionRef' = IF tc THEN NoText ELSE text
        /\ messages' = IF tc THEN messages \o Flush(text) ELSE messages
        /\ targets' = IF tc THEN targets \o [i \in 1..Len(Flush(text)) |->
                                                TargetOf(k)]
                             ELSE targets
        /\ dropped' = IF ut # <<>> \/ mt # <<>> THEN "no"
                      ELSE IF intr /\ transcriptionRef # NoText
                             THEN IF tc THEN "flushed" ELSE "dropped"
                             ELSE IF tc /\ dropped = "dropped" THEN "flushed"
                                                              ELSE dropped
        /\ isSpeaking' = IF audio # 0 THEN TRUE
                         ELSE IF intr THEN FALSE ELSE isSpeaking
        /\ IF audio > 0
             THEN /\ src' = [stopped EXCEPT ![NextChunk] =
                       [NoSrc EXCEPT !.st = "decoding", !.ctx = k,
                                     !.dur = audio]]
                  /\ decodeQ' = Append(decodeQ, NextChunk)
             ELSE /\ src' = stopped
                  /\ decodeQ' = decodeQ
  /\ UNCHANGED <<authVars, sendVars, codecVars, askVars, currentSessionId, chatVars, connectionState, isSpeakingRef,
                 volumeLevel, refVars, devVars, call, clock, chan,
                 closeOnOpen, lastFrame>>

\* a message of the audio stream: interrupted and/or an audio chunk, no
\* transcript and no turn boundary (lines 290-298)
OnMessage(k, intr, audio) ==
  /\ intr \/ audio # 0
  /\ Message(k, intr, <<>>, <<>>, FALSE, audio)

\* a variant of StartTime: the chunk is started at once
StartTimeNow(next, now) == now

\* line 302
StartTime(next, now) == Max(next, now)

\* a variant of Resumed: the handler suspended last resumes first
ResumedLast(q) == q[Len(q)]

\* line 298: decodeAudioData (src/unnamed/part_007) has no await of its
\* own, so the promises of the suspended handlers settle in the order of the
\* calls and their continuations run in that order
Resumed(q) == Head(q)

\* The oldest suspended handler resumes after its await: lines 299-306.  The
\* source is created on the output context the handler's connect() captured.
DecodeDone ==
  /\ decodeQ # <<>>
  /\ LET i == Resumed(decodeQ)
         start == StartTime(nextStartTimeRef, clock[src[i].ctx])
         Waits(j) == j # i
     IN /\ src' = [src EXCEPT ![i].st = "live", ![i].start = start]
        /\ nextStartTimeRef' = start + src[i].dur
        /\ prevEnd' = start + src[i].dur
        /\ audioSources' = audioSources \cup {i}
        /\ decodeQ' = SelectSeq(decodeQ, Waits)
  /\ UNCHANGED <<authVars, sendVars, codecVars, askVars, currentSessionId, textVars, chatVars, connectionState, isSpeaking,
                 isSpeakingRef, volumeLevel, refVars, devVars, call, clock,
                 chan, closeOnOpen, lastFrame>>

\* a started source has played to its end, or has been stopped
CanEnd(i) ==
  /\ src[i].st = "live"
  /\ src[i].stopped \/ clock[src[i].ctx] >= src[i].start + src[i].dur

\* source.onended, line 306; the source is garbage afterwards
OnEnded(i) ==
  /\ CanEnd(i)
  /\ src' = [src EXCEPT ![i] = [NoSrc EXCEPT !.st = "ended"]]
  /\ audioSources' = audioSources \ {i}
  /\ isSpeaking' = IF audioSources \ {i} = {} THEN FALSE ELSE isSpeaking
  /\ UNCHANGED <<authVars, sendVars, codecVars, askVars, currentSessionId, textVars, chatVars, connectionState, isSpeakingRef,
                 volumeLevel, refVars, devVars, nextStartTimeRef, decodeQ,
                 prevEnd, call, clock, chan, closeOnOpen,
                 lastFrame>>

\* the clock of an open output context advances
Tick(k) ==
  /\ outCtx[k] = "open"
  /\ clock[k] < MaxTime
  /\ clock' = [clock EXCEPT ![k] = clock[k] + 1]
  /\ UNCHANGED <<authVars, sendVars, codecVars, askVars, currentSessionId, textVars, chatVars, connectionState, isSpeaking,
                 isSpeakingRef, volumeLevel, refVars, devVars, playVars, call,
                 chan, closeOnOpen, lastFrame>>

\* ---- capture, lines 281-287, and the effect of line 82 ------------------
\* a variant of Volume: the product is stored as it is
VolumeUnclamped(rms) == rms * VolGain

\* line 285
Volume(rms) == Min(rms * VolGain, VolOne)

\* onopen has installed the capture callback of call k (lines 279-288) and its
\* input context still delivers frames
Capturing(k) ==
  /\ chan[k] \in {"open", "closing", "closed"}
  /\ inCtx[k] = "open"

\* line 282
Gate == isSpeakingRef

\* processor.onaudioprocess for one frame of energy rms
Frame(k, rms) ==
  /\ Capturing(k)
  /\ IF Gate
       THEN /\ lastFrame' = "gated"
            /\ UNCHANGED volumeLevel
       ELSE /\ lastFrame' = "sent"
            /\ volumeLevel' = Volume(rms)
  /\ UNCHANGED <<authVars, sendVars, codecVars, askVars, currentSessionId, textVars, chatVars, connectionState, isSpeaking,
                 isSpeakingRef, refVars, devVars, playVars, call, clock, chan,
                 closeOnOpen>>

\* the effect of line 82 runs after the render that follows setIsSpeaking
SyncIsSpeakingRef ==
  /\ isSpeakingRef # isSpeaking
  /\ isSpeakingRef' = isSpeaking
  /\ UNCHANGED <<authVars, sendVars, codecVars, askVars, currentSessionId, textVars, chatVars, connectionState, isSpeaking, volumeLevel,
                 refVars, devVars, playVars, call, clock, chan, closeOnOpen,
                 lastFrame>>

\* ---- the then-callback of a frame, line 286 -------------------------------
\* The callback of line 286 runs after onaudioprocess has returned: in the
\* microtask that follows when the session promise is resolved, at its
\* resolution otherwise.  Frame takes it as part of the step of the frame; the
\* two actions below take it as a step of its own.

\* processor.onaudioprocess for one frame of energy rms, up to the registration
\* of the then-callback
FrameQueued(k, rms) ==
  /\ Capturing(k)
  /\ Len(thenQ) < MaxPending
  /\ IF Gate
       THEN /\ lastFrame' = "gated"
            /\ UNCHANGED <<volumeLevel, thenQ>>
       ELSE /\ lastFrame' = "queued"
            /\ volumeLevel' = Volume(rms)
            /\ thenQ' = Append(thenQ, [k |-> k, rms |-> rms])
  /\ UNCHANGED <<authVars, codecVars, askVars, currentSessionId, lastSent, textVars, chatVars,
                 connectionState, isSpeaking, isSpeakingRef, refVars, devVars,
                 playVars, call, clock, chan, closeOnOpen>>

\* a variant of NextThen: the callback registered last runs first
LastThen(q) == Len(q)

\* the callbacks registered on a promise run in the order of registration
NextThen(q) == 1

\* s.sendRealtimeInput fails on a channel that is not open; the catch of line
\* 286 swallows the failure
SendFails(k) == chan[k] # "open"

\* s => s.sendRealtimeInput({ media: createAudioBlob(inputData) }), line 286
RunThen ==
  /\ thenQ # <<>>
  /\ LET n == NextThen(thenQ)
         f == thenQ[n]
     IN /\ chan[f.k] \notin {"none", "pending"}
        /\ lastSent' = IF SendFails(f.k) THEN lastSent ELSE f.rms
        /\ thenQ' = SubSeq(thenQ, 1, n - 1) \o SubSeq(thenQ, n + 1, Len(thenQ))
  /\ UNCHANGED <<authVars, codecVars, askVars, currentSessionId, textVars, chatVars, connectionState,
                 isSpeaking, isSpeakingRef, volumeLevel, refVars, devVars,
                 playVars, call, clock, chan, closeOnOpen, lastFrame>>

\* ---- the PCM codec, src/utils/audioUtils.ts --------------------------------
\* line 7: 0x8000 and 0x7FFF; line 44: 32768.0
NegScale == 32768
PosScale == 32767
DecodeDiv == 32768
\* an Int16Array element holds 16 bits, a Uint8Array element 8
Int16Mod == 65536
ByteMod == 256

Samples == (-MaxSample * SampleDen)..(MaxSample * SampleDen)

\* a variant of Clamp: the sample is taken as it is
ClampNever(n) == n

\* line 6: Math.max(-1, Math.min(1, s))
Clamp(n) == Max(-SampleDen, Min(SampleDen, n))

\* a variant of Scale: one narrower scale for both signs
ScaleNarrow(n) == 32000

\* line 7: s < 0 ? 0x8000 : 0x7FFF
Scale(n) == IF n < 0 THEN NegScale ELSE PosScale

\* the store into an Int16Array element: the fraction is cut off towards zero
\* and the integer is taken modulo 2^16 into [-32768, 32767]
ToInt16(num, den) ==
  LET t == IF num >= 0 THEN num \div den ELSE -((-num) \div den)
      m == t % Int16Mod
  IN IF m >= Int16Mod \div 2 THEN m - Int16Mod ELSE m

\* lines 3-10, for one sample
float32ToPCM16(n) == ToInt16(Clamp(n) * Scale(Clamp(n)), SampleDen)

\* pcm16.buffer: the two bytes of an element, low byte first
BufferOf(p) ==
  LET u == p % Int16Mod IN <<u % ByteMod, u \div ByteMod>>

\* line 41: new Int16Array(buffer), for one element
Int16Of(buffer) ==
  LET u == buffer[1] + ByteMod * buffer[2]
  IN IF u >= Int16Mod \div 2 THEN u - Int16Mod ELSE u

\* lines 40-47, for one element
convertPCM16ToFloat32(buffer) == Frac(Int16Of(buffer), DecodeDiv)

Encode ==
  /\ codec = "idle"
  /\ pcm16' = float32ToPCM16(sample)
  /\ codec' = "encoded"
  /\ UNCHANGED <<authVars, sendVars, askVars, currentSessionId, sample, float32, textVars, chatVars,
                 connectionState, isSpeaking, isSpeakingRef, volumeLevel,
                 refVars, devVars, playVars, call, clock, chan, closeOnOpen,
                 lastFrame>>

Decode ==
  /\ codec = "encoded"
  /\ float32' = convertPCM16ToFloat32(BufferOf(pcm16))
  /\ codec' = "decoded"
  /\ UNCHANGED <<authVars, sendVars, askVars, currentSessionId, sample, pcm16, textVars, chatVars,
                 connectionState, isSpeaking, isSpeakingRef, volumeLevel,
                 refVars, devVars, playVars, call, clock, chan, closeOnOpen,
                 lastFrame>>

\* ---- specifications ----------------------------------------------------
\* connect() calls K, with everything a call sets off
Setup(K) ==
  \/ Disconnect
  \/ \E k \in K : Connect(k)
  \/ \E k \in K : ChatCreated(k)
  \/ \E k \in K, w \in {"first", "second"} : CtxFail(k, w)
  \/ \E k \in K : OpenThrows(k)
  \/ \E k \in K : MicOk(k)
  \/ \E k \in K : ChannelOpen(k)
  \/ \E k \in K : ChannelFail(k)
  \/ \E k \in K : OnClose(k)
  \/ \E k \in K : OnError(k)

Session(K) == Setup(K) \/ \E k \in K : MicFail(k)

\* inbound messages and playback, with at most n chunks and clocks up to t
Playback(n, t) ==
  \/ \E k \in Calls, intr \in BOOLEAN, audio \in {-1, 0} \cup Durs :
        /\ audio > 0 => Cardinality(FreeChunks) > MaxChunks - n
        /\ OnMessage(k, intr, audio)
  \/ DecodeDone
  \/ \E i \in Chunks : OnEnded(i)
  \/ \E k \in Calls : clock[k] < t /\ Tick(k)

Capture ==
  \/ \E k \in Calls, rms \in RmsVals : Frame(k, rms)
  \/ SyncIsSpeakingRef

\* the number of spans in a sequence of chat entries
SpanCount(entries) ==
  LET n[i \in 0..Len(entries)] ==
        IF i = 0 THEN 0 ELSE n[i - 1] + Len(entries[i].content)
  IN n[Len(entries)]

\* transcript and turn-boundary messages, with at most n spans accumulated and
\* at most m spans in the chat entries
Transcript(n, m) ==
  \E k \in Calls, intr \in BOOLEAN, ut \in SpanOpt(UserSpans),
     mt \in SpanOpt(ModelSpans), tc \in BOOLEAN, audio \in {-1, 0} :
       /\ intr \/ tc \/ ut # <<>> \/ mt # <<>>
       /\ Message(k, intr, ut, mt, tc, audio)
       /\ Len(transcriptionRef'.user) + Len(transcriptionRef'.model) <= n
       /\ SpanCount(messages') <= m

\* One voice session: a single connect() call and everything it sets off.
Next == Session({1}) \/ Playback(MaxChunks, MaxTime) \/ Capture
Spec == Init /\ [][Next]_vars

\* The same without the capture side.  Frame and SyncIsSpeakingRef write only
\* lastFrame, volumeLevel and isSpeakingRef, which no other action reads, so
\* every behaviour of Spec is a behaviour of SpecPlayback on the other variables.
NextPlayback == Session({1}) \/ Playback(MaxChunks, MaxTime)
SpecPlayback == Init /\ [][NextPlayback]_vars

\* Several connect() calls, overlapping or one after the other, with a short
\* playback.
ReconnectChunks == 1
ReconnectTime == 1
NextReconnect ==
  Session(Calls) \/ Playback(ReconnectChunks, ReconnectTime) \/ Capture
SpecReconnect == Init /\ [][NextReconnect]_vars

\* One voice session with transcription: no audio is played.
NextTranscript == Session({1}) \/ Transcript(MaxSpans, MaxFlushed)
SpecTranscript == Init /\ [][NextTranscript]_vars

\* Several connect() calls whose microphone failures are reported as in
\* src/unnamed/part_005; everything else is as in the first revision.
NextMicError ==
  Setup(Calls) \/ \E k \in Calls, e \in MicErrors : MicFailReported(k, e)
SpecMicError == Init /\ [][NextMicError]_vars

\* Several connect() calls with a playback long enough for a chunk in each of
\* two sessions, without the capture side.
CarryChunks == 2
CarryTime == 1
NextCarryOver == Session(Calls) \/ Playback(CarryChunks, CarryTime)
SpecCarryOver == Init /\ [][NextCarryOver]_vars

\* the UI makes another chat session the active one, or none (the
\* setActiveSessionId the hook returns, second revision, line 774)
SetActiveSessionId(id) ==
  /\ id \in 0..sessions
  /\ id # activeSessionId
  /\ activeSessionId' = id
  /\ UNCHANGED <<authVars, sendVars, codecVars, askVars, currentSessionId,
                 textVars, sessions, connectionState, isSpeaking,
                 isSpeakingRef, volumeLevel, refVars, devVars, playVars, call,
                 clock, chan, closeOnOpen, lastFrame>>

\* the UI starts a new chat (createNewChat, second revision, lines 530-536)
NewChat ==
  /\ sessions < MaxSessions
  /\ CreateNewChat
  /\ UNCHANGED <<authVars, sendVars, codecVars, askVars, currentSessionId,
                 textVars, connectionState, isSpeaking, isSpeakingRef,
                 volumeLevel, refVars, devVars, playVars, call, clock, chan,
                 closeOnOpen, lastFrame>>

\* One voice session with transcription while the UI switches between chat
\* sessions.
NextTarget ==
  \/ Session({1})
  \/ Transcript(MaxSpans, MaxFlushed)
  \/ \E id \in 0..MaxSessions : SetActiveSessionId(id)
  \/ NewChat
SpecTarget == Init /\ [][NextTarget]_vars

\* ---- sendTextMessage, lines 319-402, and handleImageGen, lines 199-220 -----
\* MODELS, lines 54-58
NumModels == 3
\* the texts of a call: white space only, a question, a request for an image
\* (the test of line 334)
Texts == {"blank", "plain", "draw"}

\* what the voice side keeps while a text call runs
voiceVars == <<authVars, sendVars, codecVars, currentSessionId,
               transcriptionRef, dropped, connectionState, isSpeaking,
               isSpeakingRef, volumeLevel, refVars, devVars, playVars, call,
               clock, chan, closeOnOpen, lastFrame>>

\* a variant of ProcessingAfter: the flag is cleared only after a failure
ProcessingAfterFailure(ok) == ok

\* line 399 (and line 218): the finally block, whatever the outcome was
ProcessingAfter(ok) == FALSE

\* lines 324-341 for the target session id: the call returns, or it starts
\* the image generation, or it sends the first request
Proceed(c, text, img, key, id) ==
  LET entry(role, content) == [role |-> role, content |-> content]
      userEntry == entry("user", IF text = "blank" THEN <<"Image Analysis">>
                                                   ELSE <<text>>)
      done == [st |-> "done", kind |-> text, model |-> 0]
  IN IF text = "blank" /\ ~img
       THEN \* line 324
            /\ ask' = [ask EXCEPT ![c] = done]
            /\ UNCHANGED <<messages, targets, isProcessing>>
       ELSE IF ~key
         THEN \* lines 326-329
              /\ ask' = [ask EXCEPT ![c] = done]
              /\ messages' = Append(messages, entry("model", <<"no key">>))
              /\ targets' = Append(targets, id)
              /\ UNCHANGED isProcessing
         ELSE \* lines 331-341; the model's entry is the last one
              /\ messages' = messages \o
                    <<userEntry,
                      entry("model", IF text = "draw" THEN <<"creating">>
                                                      ELSE <<>>)>>
              /\ targets' = targets \o <<id, id>>
              /\ isProcessing' = TRUE
              /\ ask' = [ask EXCEPT ![c] =
                    [st |-> IF text = "draw" THEN "image" ELSE "fetch",
                     kind |-> text,
                     model |-> IF text = "draw" THEN 0 ELSE 1,
                     msg |-> Len(messages) + 2]]

\* sendTextMessage(text, imageData) is called; key: getOpenRouterKey()
\* returns a key.  A logged-in caller without an active session waits for
\* the insert of createNewChat (line 322).
SendTextMessage(c, text, img, key) ==
  /\ ask[c].st = "idle"
  /\ \A b \in Asks : b < c => ask[b].st # "idle"
  /\ IF activeSessionId = None
       THEN IF user
              THEN /\ ask' = [ask EXCEPT ![c] =
                         [st |-> "chat", kind |-> text, model |-> 0,
                          img |-> img, key |-> key]]
                   /\ UNCHANGED <<chatVars, messages, targets, isProcessing>>
              ELSE /\ CreateNewChat
                   /\ Proceed(c, text, img, key, sessions + 1)
       ELSE /\ UNCHANGED chatVars
            /\ Proceed(c, text, img, key, activeSessionId)
  /\ UNCHANGED voiceVars

\* createNewChat resolves for the call (lines 139-146, 322)
AskChatCreated(c) ==
  /\ ask[c].st = "chat"
  /\ CreateNewChat
  /\ Proceed(c, ask[c].kind, ask[c].img, ask[c].key, sessions + 1)
  /\ UNCHANGED voiceVars

\* updateMessage(targetSessionId, streamId, { content })
UpdateMessage(msgs, i, content) == [msgs EXCEPT ![i].content = content]

\* the call ends: lines 393-399
AskEnds(c, ok, content) ==
  /\ messages' = UpdateMessage(messages, ask[c].msg, content)
  /\ isProcessing' = ProcessingAfter(ok)
  /\ ask' = [ask EXCEPT ![c].st = "done"]

\* the request of the loop has failed (lines 378, 381, 386): the next model is
\* tried, or line 390 throws after the last one
ModelFailed(c) ==
  IF ask[c].model < NumModels
    THEN /\ ask' = [ask EXCEPT ![c].st = "fetch", ![c].model = @ + 1]
         /\ UNCHANGED <<messages, isProcessing>>
    ELSE AskEnds(c, FALSE, <<"busy">>)

\* the fetch of line 362 settles: a response that is ok, or a response that
\* is not, or an exception
FetchSettles(c, ok) ==
  /\ ask[c].st = "fetch"
  /\ IF ok THEN /\ ask' = [ask EXCEPT ![c].st = "json"]
                /\ UNCHANGED <<messages, isProcessing>>
           ELSE ModelFailed(c)
  /\ UNCHANGED <<voiceVars, chatVars, targets>>

\* response.json() settles (line 379): a reply, or no reply, or an exception
JsonSettles(c, reply) ==
  /\ ask[c].st = "json"
  /\ IF reply THEN AskEnds(c, TRUE, <<"reply">>) ELSE ModelFailed(c)
  /\ UNCHANGED <<voiceVars, chatVars, targets>>

\* the timer of line 211 fires: lines 213-218
ImageReady(c) ==
  /\ ask[c].st = "image"
  /\ AskEnds(c, TRUE, <<"image">>)
  /\ UNCHANGED <<voiceVars, chatVars, targets>>

\* resetChat, line 127
ResetChat == SetActiveSessionId(None)

\* Text calls, with the chat reset between them.
NextAsk ==
  \/ \E c \in Asks, text \in Texts, img \in BOOLEAN, key \in BOOLEAN :
        SendTextMessage(c, text, img, key)
  \/ \E c \in Asks : AskChatCreated(c)
  \/ \E c \in Asks, ok \in BOOLEAN : FetchSettles(c, ok)
  \/ \E c \in Asks, reply \in BOOLEAN : JsonSettles(c, reply)
  \/ \E c \in Asks : ImageReady(c)
  \/ ResetChat
SpecAsk == Init /\ [][NextAsk]_vars

\* The same, with every request, every parsing of a response and every timer
\* settling.
SpecAskFair ==
  /\ SpecAsk
  /\ \A c \in Asks :
       /\ WF_vars(\E ok \in BOOLEAN : FetchSettles(c, ok))
       /\ WF_vars(\E reply \in BOOLEAN : JsonSettles(c, reply))
       /\ WF_vars(ImageReady(c))

\* the time by which every chunk received so far will have been played
Horizon ==
  LET d[n \in 0..Len(decodeQ)] ==
        IF n = 0 THEN 0 ELSE d[n - 1] + src[decodeQ[n]].dur
  IN Max(nextStartTimeRef, clock[1]) + d[Len(decodeQ)]

\* One voice session whose decodes settle, whose output clock advances,
\* whose started sources fire their ended callback and whose channel, once
\* it is closing, delivers its close event.  The messages are such
\* that everything received is played by MaxTime, so that no source waits
\* for a time beyond the bound of the clock.
NextSpeaking ==
  \/ Session({1})
  \/ Playback(MaxChunks, MaxTime) /\ Horizon' <= MaxTime
SpecSpeaking ==
  /\ Init /\ [][NextSpeaking]_vars
  /\ WF_vars(DecodeDone)
  /\ \A i \in Chunks : WF_vars(OnEnded(i))
  /\ WF_vars(Tick(1) /\ Horizon' <= MaxTime)
  /\ WF_vars(chan[1] = "closing" /\ OnClose(1))

\* One voice session whose captured frames are handed to the channel by
\* then-callbacks that run as steps of their own; the messages carry no chunk
\* that decodes, so the speaking flag changes and nothing is played.
NextSend ==
  \/ Session({1})
  \/ \E intr \in BOOLEAN, audio \in {-1, 0} : OnMessage(1, intr, audio)
  \/ \E k \in Calls, rms \in RmsVals : FrameQueued(k, rms)
  \/ RunThen
  \/ SyncIsSpeakingRef
SpecSend == Init /\ [][NextSend]_vars

\* The codec applied to one sample: encoded, then decoded.
InitCodec ==
  /\ HookInit
  /\ sample \in Samples
  /\ pcm16 = 0
  /\ float32 = Frac(0, 1)
  /\ codec = "idle"
NextCodec == Encode \/ Decode
SpecCodec == InitCodec /\ [][NextCodec]_vars

\* ---- C1 ------------------------------------------------------------------
\* C1: every chunk is started at max(nextStartTime, output clock) and
\* nextStartTime becomes that start plus the chunk's duration; so a chunk that
\* follows another with no interruption in between starts no earlier than the
\* scheduled end of the one before, and exactly at that end when it is
\* enqueued before that end.
C1_Gapless ==
  [][DecodeDone =>
       LET i == Head(decodeQ)
           now == clock[src[i].ctx]
       IN /\ src'[i].start = Max(nextStartTimeRef, now)
          /\ nextStartTimeRef' = src'[i].start + src[i].dur
          /\ prevEnd >= 0 => /\ src'[i].start >= prevEnd
                             /\ now <= prevEnd => src'[i].start = prevEnd]_vars

\* two pending chunks scheduled back to back, the second not yet started
C1_Witness ==
  \E i, j \in audioSources :
     /\ i # j
     /\ ~src[i].stopped /\ ~src[j].stopped
     /\ src[j].start = src[i].start + src[i].dur
     /\ src[j].start > clock[src[j].ctx]
     /\ prevEnd = src[j].start + src[j].dur

\* ---- C2 ------------------------------------------------------------------
\* C2: handling an interrupted event stops every pending source, leaves the
\* pending set empty and isSpeaking false, and the next chunk started
\* afterwards is started at the output clock's current time.
C2_InterruptClears ==
  [][/\ (\E k \in Calls : OnMessage(k, TRUE, 0)) =>
          /\ audioSources' = {}
          /\ ~isSpeaking'
          /\ \A i \in audioSources : src'[i].stopped
     /\ (DecodeDone /\ prevEnd = -1) =>
          src'[Head(decodeQ)].start = clock[src[Head(decodeQ)].ctx]]_vars

\* a chunk scheduled but not yet started was stopped by an interruption, and
\* the chunk enqueued afterwards is pending with an earlier start
C2_Witness ==
  \E i \in audioSources, j \in Chunks :
     /\ src[j].st = "live" /\ src[j].stopped
     /\ ~src[i].stopped
     /\ connectionState = "CONNECTED"
     /\ src[i].start < src[j].start

\* ---- C3 ------------------------------------------------------------------
\* C3: in every reachable state the speaking flag is true if and only if the
\* set of pending playback sources is non-empty.
C3_SpeakingIffPending == isSpeaking <=> audioSources # {}

\* ---- C4 ------------------------------------------------------------------
\* C4: a captured frame is sent on the channel if and only if the speaking
\* flag is false when the frame is captured.
C4_HalfDuplexGate ==
  [][(\E k \in Calls, rms \in RmsVals : Frame(k, rms)) =>
        (lastFrame' = "sent" <=> ~isSpeaking)]_vars

\* ---- C5 ------------------------------------------------------------------
\* what disconnect() is to leave: DISCONNECTED, nothing held in the refs,
\* nothing pending, the flags reset
TornDown ==
  /\ connectionState = "DISCONNECTED"
  /\ sessionPromiseRef = None
  /\ mediaStreamRef = None
  /\ inputContextRef = None
  /\ outputContextRef = None
  /\ audioSources = {}
  /\ ~isSpeaking
  /\ volumeLevel = 0

\* C5: disconnect() can be called in any state, leaves the state DISCONNECTED
\* with no session handle, microphone stream or audio context held, and a
\* second call changes nothing.
C5_DisconnectIdempotent ==
  [][Disconnect => /\ TornDown'
                   /\ TornDown => UNCHANGED vars]_vars

\* torn down after a session that was connected: its stream is stopped, its
\* contexts are closed and its channel is being closed
C5_Witness ==
  /\ TornDown
  /\ \E k \in Calls : /\ stream[k] = "stopped"
                      /\ inCtx[k] = "closed"
                      /\ outCtx[k] = "closed"
                      /\ chan[k] = "closing"

\* ---- C6 ------------------------------------------------------------------
Live(f, v) == {k \in Calls : f[k] = v}

\* C6: at every moment at most one session handle, one microphone stream and
\* one pair of audio contexts are live.
C6_AtMostOneLive ==
  /\ Cardinality(Live(chan, "open")) <= 1
  /\ Cardinality(Live(stream, "live")) <= 1
  /\ Cardinality(Live(inCtx, "open")) <= 1
  /\ Cardinality(Live(outCtx, "open")) <= 1

\* ---- C7 ------------------------------------------------------------------
\* C7: the state becomes CONNECTED only as a successor of CONNECTING.
C7_ConnectedAfterConnecting ==
  [][(connectionState # "CONNECTED" /\ connectionState' = "CONNECTED")
        => connectionState = "CONNECTING"]_vars

\* ---- C8 ------------------------------------------------------------------
\* C8: no chunk received before an interruption is started or added to the
\* pending set after it.
C8_NoStaleChunk == \A i \in audioSources : ~src[i].stale

\* ---- C9 ------------------------------------------------------------------
\* nothing of the session of call k is live or held
Released(k) ==
  /\ stream[k] # "live"
  /\ inCtx[k] # "open"
  /\ outCtx[k] # "open"
  /\ sessionPromiseRef # k
  /\ \A i \in audioSources : src[i].ctx # k

\* C9: after onerror or onclose of a session is handled, no microphone
\* stream, audio context, pending source or session handle of it remains.
C9_ErrorTearsDown ==
  [][\A k \in Calls : (OnError(k) \/ OnClose(k)) => Released(k)']_vars

\* ---- C10 -----------------------------------------------------------------
\* C10: disconnect() closes the channel before any later step takes effect:
\* once the microphone tracks of a session are stopped, its channel is
\* neither still opening nor open.
C10_ChannelClosedFirst ==
  \A k \in Calls : stream[k] = "stopped" => chan[k] \notin {"pending", "open"}

\* ---- C11 -----------------------------------------------------------------
\* C11: when the session promise of a connect() rejects, the state ends
\* DISCONNECTED and the microphone stream and both audio contexts that
\* connect() acquired are released.
C11_RejectionTearsDown ==
  [][\A k \in Calls : ChannelFail(k) =>
        /\ connectionState' = "DISCONNECTED"
        /\ stream'[k] # "live"
        /\ inCtx'[k] # "open"
        /\ outCtx'[k] # "open"]_vars

\* ---- C12 -----------------------------------------------------------------
\* C12: an audio chunk that does not decode is dropped and nothing else
\* happens: the speaking flag, the pending set, the suspended decodes and the
\* scheduling counter are as before.
C12_DecodeFailureDropsChunk ==
  [][\A k \in Calls : OnMessage(k, FALSE, -1) =>
        UNCHANGED <<isSpeaking, audioSources, decodeQ, nextStartTimeRef>>]_vars

\* ---- C13 -----------------------------------------------------------------
HasText(text) == \E i \in 1..Len(text) : text[i] # Blank
Appended == SubSeq(messages', Len(messages) + 1, Len(messages'))
EntriesOf(role) == {i \in 1..Len(Appended) : Appended[i].role = role}

\* C13: partial user transcripts are accumulated in arrival order; a
\* turn-complete appends exactly one user entry whose text is their
\* concatenation and empties the accumulator; a turn-complete with nothing
\* accumulated appends nothing.
C13_TurnFlush ==
  [][\A k \in Calls, ut \in SpanOpt(UserSpans), mt \in SpanOpt(ModelSpans),
        audio \in {-1, 0} :
       /\ Message(k, FALSE, ut, mt, FALSE, audio) =>
            /\ transcriptionRef'.user = transcriptionRef.user \o ut
            /\ transcriptionRef'.model = transcriptionRef.model \o mt
       /\ Message(k, FALSE, ut, mt, TRUE, audio) =>
            LET u == transcriptionRef.user \o ut
                m == transcriptionRef.model \o mt
            IN /\ transcriptionRef' = NoText
               /\ SubSeq(messages', 1, Len(messages)) = messages
               /\ HasText(u) => /\ Cardinality(EntriesOf("user")) = 1
                                /\ \A i \in EntriesOf("user") :
                                      Appended[i].content = u
               /\ (u = <<>> /\ m = <<>>) => messages' = messages]_vars

\* "Hel" then "lo" then a turn-complete: the one entry is "Hello" and the
\* accumulator is empty
C13_Witness ==
  /\ messages = <<[role |-> "user", content |-> <<"Hel", "lo">>]>>
  /\ transcriptionRef = NoText
  /\ connectionState = "CONNECTED"

\* ---- C14 -----------------------------------------------------------------
\* C14: an interrupted event discards the accumulated spans: after it the
\* accumulator holds only what the same message carried, and a turn-complete
\* that follows with no new span appends no entry.
C14_InterruptDiscards ==
  [][/\ \A k \in Calls, ut \in SpanOpt(UserSpans),
           mt \in SpanOpt(ModelSpans), audio \in {-1, 0} :
          Message(k, TRUE, ut, mt, FALSE, audio) =>
             transcriptionRef' = [user |-> ut, model |-> mt]
     /\ dropped' = "flushed" => messages' = messages]_vars

\* spans were accumulated and discarded, a turn-complete followed, and the
\* chat has no entry
C14_Witness ==
  /\ dropped = "flushed"
  /\ messages = <<>>
  /\ transcriptionRef = NoText
  /\ connectionState = "CONNECTED"

\* ---- C15 -----------------------------------------------------------------
\* C15: chat entries are appended only by a message that carries
\* turn-complete, at most one for the user and one for the model, and none
\* with an empty text.
C15_FlushOnlyAtTurnComplete ==
  [][messages' # messages =>
       /\ \E k \in Calls, intr \in BOOLEAN, ut \in SpanOpt(UserSpans),
             mt \in SpanOpt(ModelSpans),
             audio \in {-1, 0} \cup Durs :
               Message(k, intr, ut, mt, TRUE, audio)
       /\ SubSeq(messages', 1, Len(messages)) = messages
       /\ Cardinality(EntriesOf("user")) <= 1
       /\ Cardinality(EntriesOf("model")) <= 1
       /\ \A i \in 1..Len(Appended) : Appended[i].content # <<>>]_vars

\* one turn-complete has appended the user's and the model's entry
C15_Witness ==
  /\ Len(messages) = 2
  /\ messages[1].role = "user"
  /\ messages[2].role = "model"
  /\ transcriptionRef = NoText

\* ---- C16 -----------------------------------------------------------------
\* C16: an interrupted event changes neither the connection state, the
\* session handle, the microphone stream nor the audio contexts; disconnect()
\* releases every one of them that the hook holds; both leave the pending set
\* empty.
C16_InterruptKeepsSession ==
  [][/\ (\E k \in Calls, audio \in {-1, 0} \cup Durs :
            OnMessage(k, TRUE, audio)) =>
          /\ UNCHANGED <<connectionState, refVars, devVars, chan, closeOnOpen>>
          /\ audioSources' = {}
     /\ Disconnect =>
          /\ sessionPromiseRef # None =>
                \/ chan'[sessionPromiseRef] \notin {"pending", "open"}
                \/ closeOnOpen'[sessionPromiseRef]
          /\ mediaStreamRef # None => stream'[mediaStreamRef] = "stopped"
          /\ inputContextRef # None => inCtx'[inputContextRef] = "closed"
          /\ outputContextRef # None => outCtx'[outputContextRef] = "closed"
          /\ sessionPromiseRef' = None /\ mediaStreamRef' = None
          /\ inputContextRef' = None /\ outputContextRef' = None
          /\ audioSources' = {}]_vars

\* an interruption has stopped a source and the session goes on: connected,
\* the channel open, the microphone live, both contexts open
C16_Witness ==
  /\ \E i \in Chunks : src[i].st = "live" /\ src[i].stopped
  /\ audioSources = {}
  /\ connectionState = "CONNECTED"
  /\ \E k \in Calls : /\ sessionPromiseRef = k /\ chan[k] = "open"
                      /\ mediaStreamRef = k /\ stream[k] = "live"
                      /\ inputContextRef = k /\ inCtx[k] = "open"
                      /\ outputContextRef = k /\ outCtx[k] = "open"

\* ---- C17 -----------------------------------------------------------------
\* C17: connect() by a caller who is not logged in returns LOGIN_REQUIRED and
\* leaves the connection state and every session resource as they were.
C17_LoginRequired ==
  [][\A k \in Calls : (Connect(k) /\ ~user) =>
        /\ call'[k] = "login"
        /\ UNCHANGED <<connectionState, refVars, devVars, chan, closeOnOpen,
                       audioSources>>]_vars

\* ---- C18 -----------------------------------------------------------------
\* C18: when getUserMedia fails the state becomes DISCONNECTED, and the
\* attempt never has a channel, a stream or a capture callback.
C18_MicFailure ==
  [][\A k \in Calls :
       /\ MicFail(k) => connectionState' = "DISCONNECTED"
       /\ call'[k] = "micfail" => /\ chan'[k] = "none"
                                  /\ stream'[k] = "none"
                                  /\ ~Capturing(k)']_vars

\* a connect() has ended in the microphone failure
C18_Witness ==
  \E k \in Calls : /\ call[k] = "micfail"
                   /\ chan[k] = "none"
                   /\ connectionState = "DISCONNECTED"
                   /\ mediaStreamRef = None
                   /\ lastFrame = "none"

\* ---- C19 -----------------------------------------------------------------
\* C19: every fatal failure of connect() ends DISCONNECTED and appends
\* exactly one message for the user.
C19_FailureReported ==
  [][\A k \in Calls :
       (\/ MicFail(k)
        \/ \E w \in {"first", "second"} : CtxFail(k, w)
        \/ OpenThrows(k)
        \/ ChannelFail(k)) =>
          /\ connectionState' = "DISCONNECTED"
          /\ Len(messages') = Len(messages) + 1]_vars

\* ---- C20 -----------------------------------------------------------------
\* C20: a permission-denied failure and a no-device failure of the microphone
\* append different messages, and are otherwise handled alike: teardown,
\* DISCONNECTED, connect() returns.
C20_MicFailureClassified ==
  [][\A k \in Calls, e \in MicErrors : MicFailReported(k, e) =>
        /\ Len(messages') = Len(messages) + 1
        /\ LET text == messages'[Len(messages')].content
           IN /\ e.name \in {"NotAllowedError", "PermissionDeniedError"} =>
                    text = <<DeniedMsg>>
              /\ e.name = "NotFoundError" => text = <<NotFoundMsg>>
              /\ text # <<DeniedMsg>> \/ text # <<NotFoundMsg>>
        /\ DeniedMsg # NotFoundMsg
        /\ TornDown'
        /\ call'[k] = "micfail"
        /\ chan'[k] = "none" /\ stream'[k] = "none"]_vars

\* one connect() has failed for permission and another for a missing device:
\* the chat shows the two different messages
C20_Witness ==
  /\ \E i, j \in 1..Len(messages) :
        /\ messages[i].content = <<DeniedMsg>>
        /\ messages[j].content = <<NotFoundMsg>>
  /\ \A k \in Calls : call[k] = "micfail"
  /\ connectionState = "DISCONNECTED"

\* ---- C21 -----------------------------------------------------------------
\* C21: chunk ids count arrivals.  The handler that resumes from its decode is
\* always the one of the chunk that arrived first among those still decoding;
\* in the same step it reads nextStartTime and writes it back, and the chunk
\* starts no earlier than the end of every pending chunk that arrived before
\* it, so among pending chunks the one that arrived first starts first.
C21_ArrivalOrder ==
  [][DecodeDone =>
       LET waiting == {j \in Chunks : src[j].st = "decoding"}
           i == CHOOSE j \in waiting : \A h \in waiting : j <= h
       IN /\ src'[i].st = "live"
          /\ src'[i].start = Max(nextStartTimeRef, clock[src[i].ctx])
          /\ nextStartTimeRef' = src'[i].start + src[i].dur
          /\ \A j \in audioSources :
                j < i /\ src[j].start + src[j].dur <= src'[i].start]_vars

\* three chunks arrived while the first was decoding; two are started, in the
\* order of their arrival, and the third still decodes
C21_Witness ==
  /\ {1, 2} \subseteq audioSources
  /\ src[1].start + src[1].dur <= src[2].start
  /\ src[3].st = "decoding"

NoConnectInProgress ==
  \A k \in Calls : call[k] \notin {"chat", "mic"} /\ chan[k] # "pending"

\* C23: a channel starts to open only in the step of a connect() call that
\* has its microphone, a channel that failed to open, had an error or was
\* closed is never opened again, and while no connect() call is in progress
\* the state stays DISCONNECTED until the caller calls connect().
C23_NoAutomaticRetry ==
  [][/\ \A k \in Calls :
          /\ chan[k] # "pending" /\ chan'[k] = "pending" => MicOk(k)
          /\ chan[k] \in {"failed", "closing", "closed"} =>
                chan'[k] \in {"failed", "closing", "closed"}
     /\ NoConnectInProgress /\ connectionState = "DISCONNECTED" =>
          \/ connectionState' = "DISCONNECTED" /\ NoConnectInProgress'
          \/ \E k \in Calls : Connect(k)]_vars

\* the first call's channel failed to open, the hook is torn down and the
\* caller has not called connect() again
C23_Witness ==
  /\ chan[1] = "failed"
  /\ connectionState = "DISCONNECTED"
  /\ call[2] = "idle"
  /\ NoConnectInProgress

\* ---- C24 -----------------------------------------------------------------
\* the distance between the input sample and the decoded value, times
\* SampleDen * float32.den
RoundTripError ==
  LET d == sample * float32.den - float32.num * SampleDen
  IN IF d >= 0 THEN d ELSE -d

\* C24, as stated: a sample of [-1, 1], encoded and decoded, comes back within
\* 1/32768 of itself.
C24_RoundTrip ==
  codec = "decoded" /\ sample \in (-SampleDen)..SampleDen =>
    RoundTripError * DecodeDiv <= SampleDen * float32.den

\* C24, amended: a sample of [-1, 1], encoded and decoded, comes back less
\* than 2/32768 below itself when it is positive, and within 1/32768 of itself
\* when it is negative or zero; the decoded value is never farther from zero
\* than the sample.
C24_RoundTripWithin2 ==
  codec = "decoded" /\ sample \in (-SampleDen)..SampleDen =>
    /\ RoundTripError * DecodeDiv < 2 * SampleDen * float32.den
    /\ sample <= 0 => RoundTripError * DecodeDiv <= SampleDen * float32.den
    /\ sample >= 0 => float32.num >= 0 /\ float32.num * SampleDen <= sample * float32.den
    /\ sample <= 0 => float32.num <= 0 /\ float32.num * SampleDen >= sample * float32.den

\* a positive sample below 1 has come back more than 1/32768 below itself
C24_Witness ==
  /\ codec = "decoded"
  /\ sample \in 1..(SampleDen - 1)
  /\ RoundTripError * DecodeDiv > SampleDen * float32.den

\* ---- C25 -----------------------------------------------------------------
\* C25: every sample, inside [-1, 1] or not, encodes to an int16 of its own
\* sign; a sample of 1 or more encodes to 32767 and a sample of -1 or less to
\* -32768.
C25_Clamped ==
  codec # "idle" =>
    /\ pcm16 \in (-NegScale)..PosScale
    /\ sample >= SampleDen => pcm16 = PosScale
    /\ sample <= -SampleDen => pcm16 = -NegScale
    /\ sample >= 0 => pcm16 >= 0
    /\ sample <= 0 => pcm16 <= 0

\* a sample above 1 has been encoded
C25_Witness ==
  /\ codec = "encoded"
  /\ sample > SampleDen
  /\ pcm16 = PosScale

\* ---- C26 -----------------------------------------------------------------
\* C26: the volume level is always between 0 and 1; a frame that passes the
\* gate stores its energy times the gain, cut at 1, and every teardown
\* stores 0.
C26_VolumeInRange ==
  /\ [](volumeLevel \in 0..VolOne)
  /\ [][/\ \A k \in Calls, rms \in RmsVals :
             Frame(k, rms) /\ ~isSpeakingRef =>
               volumeLevel' = IF rms * VolGain > VolOne THEN VolOne
                                                       ELSE rms * VolGain
        /\ Disconnect => volumeLevel' = 0]_vars

\* a frame whose energy times the gain exceeds 1 has been metered
C26_Witness ==
  /\ lastFrame = "sent"
  /\ volumeLevel = VolOne
  /\ \E rms \in RmsVals : rms * VolGain > VolOne

\* ---- C27 -----------------------------------------------------------------
\* C27: once a session's microphone has been stopped by a teardown and the
\* refs hold a later session, a close, an error or a message of the earlier
\* session's channel changes neither the connection state nor the speaking
\* flag, nextStartTime or the pending set.
C27_SupersededSilent ==
  [][\A k \in Calls :
       /\ stream[k] = "stopped"
       /\ sessionPromiseRef \notin {None, k}
       /\ \/ OnClose(k)
          \/ OnError(k)
          \/ \E intr \in BOOLEAN, audio \in {-1, 0} \cup Durs :
                OnMessage(k, intr, audio)
       => UNCHANGED <<connectionState, isSpeaking, nextStartTimeRef,
                      audioSources>>]_vars

\* ---- C28 -----------------------------------------------------------------
\* C28: with a single connect() call, a disconnect() that runs while the call
\* waits for the microphone leaves the state DISCONNECTED with the call still
\* waiting, and one that runs while the channel opens leaves a close waiting
\* on the promise.  The call that resumes after the first acquires no stream,
\* context or channel, and the channel that opens after the second does not
\* make the state CONNECTED.
C28_DisconnectCancels ==
  [][\A k \in Calls :
       /\ call[k] = "mic" /\ connectionState = "DISCONNECTED" /\ MicOk(k) =>
            /\ stream'[k] # "live"
            /\ inCtx'[k] # "open" /\ outCtx'[k] # "open"
            /\ chan'[k] \notin {"pending", "open"}
       /\ closeOnOpen[k] /\ ChannelOpen(k) =>
            connectionState' # "CONNECTED"]_vars

\* ---- C29 -----------------------------------------------------------------
\* C29: every live microphone stream, every open output context and every
\* open channel is the one the hook's refs hold, so there is at most one of
\* each and disconnect() reaches it.
C29_OverlapHeldByRefs ==
  \A k \in Calls :
    /\ stream[k] = "live" => mediaStreamRef = k
    /\ outCtx[k] = "open" => outputContextRef = k
    /\ chan[k] = "open" => sessionPromiseRef = k

\* ---- C30 -----------------------------------------------------------------
\* C30: when every chunk that arrived before belongs to an earlier session
\* whose output context a teardown has closed, the chunk is the first of its
\* session and starts at the current time of its own output context.
C30_NoCarryOver ==
  [][DecodeDone =>
       LET i == Head(decodeQ)
       IN (/\ i > 1
           /\ \A j \in 1..(i - 1) :
                /\ src[j].st = "live"
                /\ src[j].ctx # src[i].ctx
                /\ outCtx[src[j].ctx] = "closed")
          => src'[i].start = clock[src[i].ctx]]_vars

\* ---- C34 -----------------------------------------------------------------
\* C34: connect() without a voice API key returns at once: the connection
\* state, the speaking flag, the volume level, the refs, the devices, the
\* channels, the playback and the chat sessions are all as they were.
C34_NoKeyNoEffect ==
  [][\A k \in Calls : (Connect(k) /\ ~geminiKey) =>
        /\ call'[k] = "nokey"
        /\ UNCHANGED <<connectionState, isSpeaking, volumeLevel, refVars,
                       devVars, chan, closeOnOpen, playVars, chatVars,
                       textVars>>]_vars

\* a connect() has returned for the missing key and nothing was acquired
C34_Witness ==
  /\ ~geminiKey
  /\ call[1] = "nokey"
  /\ connectionState = "DISCONNECTED"
  /\ stream[1] = "none" /\ inCtx[1] = "none" /\ outCtx[1] = "none"
  /\ chan[1] = "none"

\* ---- C35 -----------------------------------------------------------------
\* C35: the step in which a connect() returns LOGIN_REQUIRED leaves the
\* number of chat sessions and the active session id as they were.
C35_LoginKeepsSessions ==
  [][\A k \in Calls : (call[k] # "login" /\ call'[k] = "login") =>
        UNCHANGED chatVars]_vars

\* ---- C31 -----------------------------------------------------------------
\* C31: whenever the speaking flag is set while the session is connected, it
\* is cleared again later.
C31_GateReopens ==
  (isSpeaking /\ connectionState = "CONNECTED") ~> ~isSpeaking

\* ---- C32 -----------------------------------------------------------------
\* C32: a connect() call captures the session that is active when it is
\* called, or the one it creates when none is active; every entry a
\* turn-complete of its voice session appends goes to that session, whatever
\* session is active then, and the entries appended before stay where they
\* are.
C32_FlushTargetsCaptured ==
  [][/\ (call[1] \in {"idle", "chat"} /\ call'[1] = "mic") =>
          /\ currentSessionId'[1] = activeSessionId'
          /\ currentSessionId'[1] # None
          /\ call[1] = "idle" /\ activeSessionId # None =>
                currentSessionId'[1] = activeSessionId
     /\ call[1] = "done" => currentSessionId'[1] = currentSessionId[1]
     /\ Len(targets') = Len(messages')
     /\ SubSeq(targets', 1, Len(targets)) = targets
     /\ \A i \in (Len(targets) + 1)..Len(targets') :
          targets'[i] = currentSessionId[1]]_vars

\* the voice session was started in chat session 1, the UI has moved to
\* session 2, and both entries of a turn are in session 1
C32_Witness ==
  /\ currentSessionId[1] = 1
  /\ activeSessionId = 2
  /\ Len(messages) = 2
  /\ targets = <<1, 1>>
  /\ chan[1] = "open"

\* ---- C33 -----------------------------------------------------------------
\* the call has set the processing flag and has not ended
Busy(c) == ask[c].st \in {"fetch", "json", "image"}

\* C33: the step that ends a call which has set the processing flag leaves
\* the flag false, after a reply of the first model, after a reply of a
\* fallback model and after the failure of all models; and every such call
\* ends.
C33_ProcessingCleared ==
  /\ [][\A c \in Asks : Busy(c) /\ ask'[c].st = "done" => ~isProcessing']_vars
  /\ \A c \in Asks : Busy(c) ~> (ask[c].st = "done" /\ ~isProcessing)

\* a call has ended with the reply of the second model
C33_Witness ==
  /\ ask[1].st = "done"
  /\ ask[1].model = 2
  /\ messages[ask[1].msg].content = <<"reply">>
  /\ ~isProcessing

\* ---- C36 -----------------------------------------------------------------
\* C36: a sendTextMessage call with blank text and no image changes neither
\* the chat sessions nor the active session id, the messages or the
\* processing flag, from its first step to its return.
C36_BlankIsNoOp ==
  [][\A c \in Asks :
       \/ \E key \in BOOLEAN : SendTextMessage(c, "blank", FALSE, key)
       \/ AskChatCreated(c) /\ ask[c].kind = "blank" /\ ~ask[c].img
       => UNCHANGED <<chatVars, messages, targets, isProcessing>>]_vars
====
